---- MODULE Spec2Model ----
(***************************************************************************)
(* Career Compass backend (src/app.py): the /generate and /download_pdf    *)
(* handlers, the Plan Client generate_ai_plan and the renderer create_pdf. *)
(* One behaviour is the life of one request in one server process: the     *)
(* handlers share nothing but the read-only API_KEY.                       *)
(***************************************************************************)
EXTENDS Integers, Sequences, FiniteSets, TLC

VARIABLES API_KEY, pc, route, data, calls, outcome, plan, response

vars == <<API_KEY, pc, route, data, calls, outcome, plan, response>>

(***************************************************************************)
(* Bounds                                                                  *)
(***************************************************************************)
\* longest weekly_plan array that a request body or an upstream reply holds
MaxWeeks == 2

(***************************************************************************)
(* Python / JSON values.  t is the type tag, v the payload.                *)
(*   "jsontext" is a Python str whose characters are the JSON              *)
(*   serialisation of v; "str" is any other str.                           *)
(***************************************************************************)
JNull == [t |-> "null"]
JNum(n) == [t |-> "num", v |-> n]
JStr(s) == [t |-> "str", v |-> s]
JArr(a) == [t |-> "arr", v |-> a]
JObj(o) == [t |-> "obj", v |-> o]
JText(x) == [t |-> "jsontext", v |-> x]
NotJson == [t |-> "invalid"]

EmptyDict == [k \in {} |-> JNull]

\* the result of evaluating a Python expression: a value, or a raised exception
Ret(x) == [exc |-> "none", val |-> x]
Raise(e) == [exc |-> e, val |-> JNull]

\* bool(x)
Truthy(x) ==
    CASE x.t = "null" -> FALSE
      [] x.t = "num" -> x.v # 0
      [] x.t = "str" -> x.v # ""
      [] x.t = "arr" -> Len(x.v) > 0
      [] x.t = "obj" -> DOMAIN x.v # {}
      [] OTHER -> TRUE

\* d.get(k) on a dict d (None when the key is absent)
Get(d, k) == IF k \in DOMAIN d.v THEN d.v[k] ELSE JNull

\* c[k] for a str key k
Item(c, k) ==
    CASE c.t = "obj" -> IF k \in DOMAIN c.v THEN Ret(c.v[k]) ELSE Raise("KeyError")
      [] OTHER -> Raise("TypeError")

\* c[0]
First(c) ==
    CASE c.t = "arr" -> IF Len(c.v) > 0 THEN Ret(c.v[1]) ELSE Raise("IndexError")
      [] c.t = "obj" -> Raise("KeyError")
      [] c.t = "str" -> IF c.v # "" THEN Ret(c) ELSE Raise("IndexError")
      [] OTHER -> Raise("TypeError")

\* json.loads(s)
JsonLoads(s) ==
    CASE s.t = "jsontext" -> Ret(s.v)
      [] s.t = "str" -> Raise("JSONDecodeError")
      [] OTHER -> Raise("TypeError")

\* k in c, for a str k
Contains(c, k) ==
    CASE c.t = "obj" -> Ret(k \in DOMAIN c.v)
      [] c.t = "arr" -> Ret(\E i \in 1..Len(c.v) : c.v[i] = JStr(k))
      [] c.t = "str" -> Ret(c.v = k)
      [] OTHER -> Raise("TypeError")

(***************************************************************************)
(* Inputs: request bodies and upstream replies                             *)
(***************************************************************************)
EntryKeys == {"week", "topic", "details", "resources"}

Labels == {"Week 1", "Week 2"}
Topics == {"Python"}
DetailLists == {<<JStr("a"), JStr("b")>>}
ResourceLists == {<<>>, <<JStr("r")>>}

EntryValues(k) ==
    CASE k = "week" -> {JStr(l) : l \in Labels}
      [] k = "topic" -> {JStr(x) : x \in Topics}
      [] k = "details" -> {JArr(d) : d \in DetailLists}
      [] k = "resources" -> {JArr(r) : r \in ResourceLists}

\* week objects: any subset of the four keys, each present key well typed
Entries ==
    UNION {{JObj(e) : e \in {f \in [K -> UNION {EntryValues(k) : k \in K}] :
                                \A k \in K : f[k] \in EntryValues(k)}} :
           K \in SUBSET EntryKeys}

WeekArrays == UNION {[1..n -> Entries] : n \in 0..MaxWeeks}

\* values the text of a completion can deserialise to, and bodies a client
\* can post to /download_pdf
PlanValues ==
    {JNull, JNum(0), JNum(8), JStr(""), JStr("weekly_plan"),
     JArr(<<>>), JArr(<<JStr("weekly_plan")>>),
     JObj(EmptyDict), JObj([plan |-> JArr(<<>>)])}
    \cup {JObj([weekly_plan |-> x]) :
            x \in {JNull, JNum(8), JStr(""), JStr("see below"), JObj(EmptyDict)}}
    \cup {JObj([weekly_plan |-> JArr(a)]) : a \in WeekArrays}

Envelope(content) ==
    JObj([choices |-> JArr(<<JObj([message |-> JObj([content |-> content])])>>)])

Envelopes ==
    {JArr(<<>>), JObj(EmptyDict),
     JObj([choices |-> JNull]), JObj([choices |-> JArr(<<>>)]),
     JObj([choices |-> JObj(EmptyDict)]),
     JObj([choices |-> JArr(<<JObj(EmptyDict)>>)]),
     JObj([choices |-> JArr(<<JObj([message |-> JObj(EmptyDict)])>>)])}
    \cup {Envelope(c) : c \in {JNull, JNum(1), JStr(""), JStr("Sorry, I cannot help.")}}
    \cup {Envelope(JText(p)) : p \in PlanValues}

\* what requests.post / raise_for_status / response.json() can come back with
FailureKinds == {"ConnectionError", "Timeout", "HTTPError"}

UpstreamOutcomes ==
    {[kind |-> k, body |-> JNull] : k \in FailureKinds}
    \cup {[kind |-> "ok", body |-> b] : b \in Envelopes \cup {NotJson}}

NoOutcome == [kind |-> "none", body |-> JNull]

RequiredFields == {"goal", "skillLevel", "skills", "hours"}

FieldValues(k) ==
    CASE k = "goal" -> {JStr(""), JStr("Data Scientist")}
      [] k = "skillLevel" -> {JStr(""), JStr("Beginner")}
      [] k = "skills" -> {JStr(""), JStr("Python, SQL")}
      [] k = "hours" -> {JStr(""), JStr("10"), JNum(0), JNum(10)}

GenerateBodies ==
    {NotJson, JNull, JArr(<<JStr("goal")>>)}
    \cup UNION {{JObj(e) : e \in {f \in [K -> UNION {FieldValues(k) : k \in K}] :
                                     \A k \in K : f[k] \in FieldValues(k)}} :
                K \in SUBSET RequiredFields}

RenderBodies == PlanValues \cup {NotJson}

KeyValues == {JNull, JStr(""), JStr("pplx-key")}

(***************************************************************************)
(* Responses                                                               *)
(***************************************************************************)
NoResponse == [status |-> 0, mimetype |-> "", body |-> JNull]

JsonResponse(code, x) == [status |-> code, mimetype |-> "application/json", body |-> x]

ErrorResponse(code, msg) == JsonResponse(code, JObj([error |-> JStr(msg)]))

\* an exception that leaves a view function: Flask answers 500
Unhandled(e) == [status |-> 500, mimetype |-> "text/html", body |-> [t |-> "exception", v |-> e]]

\* request.get_json() on a body that is not JSON aborts the request
BadRequest == [status |-> 400, mimetype |-> "text/html", body |-> [t |-> "exception", v |-> "BadRequest"]]

(***************************************************************************)
(* Plan Client: generate_ai_plan                                           *)
(***************************************************************************)
\* response_data['choices'][0]['message']['content']
ExtractContent(response_data) ==
    LET choices == Item(response_data, "choices") IN
    IF choices.exc # "none" THEN choices ELSE
    LET choice == First(choices.val) IN
    IF choice.exc # "none" THEN choice ELSE
    LET message == Item(choice.val, "message") IN
    IF message.exc # "none" THEN message ELSE
    Item(message.val, "content")

\* the body of the try block once requests.post has come back with o
TryBlock(o) ==
    IF o.kind # "ok" THEN Raise(o.kind)
    ELSE IF o.body.t = "invalid" THEN Raise("JSONDecodeError")
    ELSE LET content_string == ExtractContent(o.body) IN
         IF content_string.exc # "none" THEN content_string
         ELSE JsonLoads(content_string.val)

\* the exceptions the two except clauses name
Caught == FailureKinds \cup {"JSONDecodeError", "KeyError"}

\* what generate_ai_plan hands to its caller when the upstream answers o:
\* plan_data, None, or an exception that no except clause names
generate_ai_plan(o) ==
    LET r == TryBlock(o) IN
    IF r.exc \in Caught THEN Ret(JNull) ELSE r

NoPlan == [exc |-> "pending", val |-> JNull]

(***************************************************************************)
(* Document Renderer: create_pdf                                           *)
(***************************************************************************)
Paragraph(text, style) == [flowable |-> "Paragraph", text |-> text, style |-> style]
Spacer(h) == [flowable |-> "Spacer", height |-> h]
Table(left, right) ==
    [flowable |-> "Table",
     header |-> <<Paragraph("<b>Details</b>", "Normal"),
                  Paragraph("<b>Suggested Resources</b>", "Normal")>>,
     row |-> <<left, right>>]

\* f"{x}"
Str(x) ==
    CASE x.t = "str" -> x.v
      [] x.t = "null" -> "None"

SetToSeq(S) == CHOOSE f \in [1..Cardinality(S) -> S] : \A i, j \in DOMAIN f : f[i] = f[j] => i = j

\* the items a for loop over x visits (a non-empty str yields strs, one per
\* character: one stand-in here; a dict yields its keys)
Iter(x) ==
    CASE x.t = "arr" -> Ret(x.v)
      [] x.t = "str" -> Ret(IF x.v = "" THEN <<>> ELSE <<x>>)
      [] x.t = "obj" -> Ret([i \in 1..Cardinality(DOMAIN x.v) |-> JStr(SetToSeq(DOMAIN x.v)[i])])
      [] OTHER -> Raise("TypeError")

\* the bullet glyph U+2022 and the space after it, in ASCII
BulletGlyph == "* "

\* [Paragraph(f"<glyph> {item}", styles['BodyText']) for item in x]
Bullets(x) ==
    LET items == Iter(x) IN
    IF items.exc # "none" THEN items
    ELSE Ret([i \in 1..Len(items.val) |-> Paragraph(BulletGlyph \o Str(items.val[i]), "BodyText")])

\* week_plan.get('resources', []) written for week_plan['resources']
WeekBlock_DefaultResources(week_plan) ==
    LET week == Item(week_plan, "week") IN
    IF week.exc # "none" THEN week ELSE
    LET topic == Item(week_plan, "topic") IN
    IF topic.exc # "none" THEN topic ELSE
    LET details == Item(week_plan, "details") IN
    IF details.exc # "none" THEN details ELSE
    LET details_list == Bullets(details.val) IN
    IF details_list.exc # "none" THEN details_list ELSE
    LET resources == IF week_plan.t = "obj" /\ "resources" \notin DOMAIN week_plan.v
                     THEN Ret(JArr(<<>>)) ELSE Item(week_plan, "resources") IN
    IF resources.exc # "none" THEN resources ELSE
    LET resources_list == Bullets(resources.val) IN
    IF resources_list.exc # "none" THEN resources_list ELSE
    Ret(<<Paragraph("<b>" \o Str(week.val) \o ": " \o Str(topic.val) \o "</b>", "h3"),
          Spacer(12),
          Table(details_list.val, resources_list.val),
          Spacer(24)>>)

\* one pass of the loop body: the flowables appended for week_plan
WeekBlock(week_plan) ==
    LET week == Item(week_plan, "week") IN
    IF week.exc # "none" THEN week ELSE
    LET topic == Item(week_plan, "topic") IN
    IF topic.exc # "none" THEN topic ELSE
    LET details == Item(week_plan, "details") IN
    IF details.exc # "none" THEN details ELSE
    LET details_list == Bullets(details.val) IN
    IF details_list.exc # "none" THEN details_list ELSE
    LET resources == Item(week_plan, "resources") IN
    IF resources.exc # "none" THEN resources ELSE
    LET resources_list == Bullets(resources.val) IN
    IF resources_list.exc # "none" THEN resources_list ELSE
    Ret(<<Paragraph("<b>" \o Str(week.val) \o ": " \o Str(topic.val) \o "</b>", "h3"),
          Spacer(12),
          Table(details_list.val, resources_list.val),
          Spacer(24)>>)

\* the week blocks are inserted at the front of the list, not appended
RECURSIVE WeekBlocks_Reversed(_)
WeekBlocks_Reversed(entries) ==
    IF entries = <<>> THEN Ret(<<>>)
    ELSE LET b == WeekBlock(Head(entries)) IN
         IF b.exc # "none" THEN b
         ELSE LET rest == WeekBlocks_Reversed(Tail(entries)) IN
              IF rest.exc # "none" THEN rest
              ELSE Ret(rest.val \o b.val)

\* the for loop: the flowables appended for the entries, or the first
\* exception, which leaves the loop and create_pdf
RECURSIVE WeekBlocks(_)
WeekBlocks(entries) ==
    IF entries = <<>> THEN Ret(<<>>)
    ELSE LET b == WeekBlock(Head(entries)) IN
         IF b.exc # "none" THEN b
         ELSE LET rest == WeekBlocks(Tail(entries)) IN
              IF rest.exc # "none" THEN rest
              ELSE Ret(b.val \o rest.val)

Preamble ==
    <<Paragraph("Your Personalized Career Compass Plan", "h1"),
      Spacer(24),
      Paragraph("Here is your 8-week learning plan to achieve your goal. Stick to the schedule, and you'll make great progress!", "BodyText"),
      Spacer(24)>>

\* plan_data.get('weekly_plan', [])
WeeklyPlanOf(plan_data) ==
    IF plan_data.t # "obj" THEN Raise("AttributeError")
    ELSE IF "weekly_plan" \in DOMAIN plan_data.v THEN Ret(plan_data.v["weekly_plan"])
    ELSE Ret(JArr(<<>>))

\* the story doc.build writes into the buffer, or the exception raised
create_pdf(plan_data) ==
    LET weekly_plan == WeeklyPlanOf(plan_data) IN
    IF weekly_plan.exc # "none" THEN weekly_plan ELSE
    LET entries == Iter(weekly_plan.val) IN
    IF entries.exc # "none" THEN entries ELSE
    LET blocks == WeekBlocks(entries.val) IN
    IF blocks.exc # "none" THEN blocks
    ELSE Ret(Preamble \o blocks.val)

(***************************************************************************)
(* Request handlers                                                        *)
(***************************************************************************)
GenericFailure == "Failed to generate plan from AI. The API may be down or the response was invalid."

\* any(...) written for all(...)
AnyField(body) == \E k \in RequiredFields : Truthy(Get(body, k))

\* all([goal, skill_level, skills_to_learn, hours_per_week])
AllFields(body) == \A k \in RequiredFields : Truthy(Get(body, k))

\* the request is validated before the credential is looked at
Validate_KeyLast(body) ==
    IF body.t = "invalid" THEN BadRequest
    ELSE IF ~Truthy(body) THEN ErrorResponse(400, "Invalid input")
    ELSE IF body.t # "obj" THEN Unhandled("AttributeError")
    ELSE IF ~AllFields(body) THEN ErrorResponse(400, "Missing required fields")
    ELSE IF ~Truthy(API_KEY) THEN ErrorResponse(500, "API key is not configured on the server.")
    ELSE NoResponse

\* generate up to the call of generate_ai_plan: the response of an early
\* return, or NoResponse when the handler goes on to the Plan Client
Validate(body) ==
    IF ~Truthy(API_KEY) THEN ErrorResponse(500, "API key is not configured on the server.")
    ELSE IF body.t = "invalid" THEN BadRequest
    ELSE IF ~Truthy(body) THEN ErrorResponse(400, "Invalid input")
    ELSE IF body.t # "obj" THEN Unhandled("AttributeError")
    ELSE IF ~AllFields(body) THEN ErrorResponse(400, "Missing required fields")
    ELSE NoResponse

\* generate after generate_ai_plan has handed back p
PlanResponse(p) ==
    IF p.exc # "none" THEN Unhandled(p.exc)
    ELSE IF ~Truthy(p.val) THEN ErrorResponse(500, GenericFailure)
    ELSE LET has == Contains(p.val, "weekly_plan") IN
         IF has.exc # "none" THEN Unhandled(has.exc)
         ELSE IF has.val THEN JsonResponse(200, p.val)
         ELSE ErrorResponse(500, GenericFailure)

\* a body without week entries is turned away
RenderResponse_RequireWeeks(body) ==
    IF body.t = "invalid" THEN BadRequest
    ELSE IF ~Truthy(body) \/ (body.t = "obj" /\ ~Truthy(Get(body, "weekly_plan")))
    THEN [status |-> 400, mimetype |-> "text/html", body |-> JStr("Invalid data")]
    ELSE LET pdf_buffer == create_pdf(body) IN
         IF pdf_buffer.exc # "none" THEN Unhandled(pdf_buffer.exc)
         ELSE [status |-> 200, mimetype |-> "application/pdf",
               body |-> [t |-> "pdf", v |-> pdf_buffer.val]]

\* download_pdf
RenderResponse(body) ==
    IF body.t = "invalid" THEN BadRequest
    ELSE IF ~Truthy(body) THEN [status |-> 400, mimetype |-> "text/html", body |-> JStr("Invalid data")]
    ELSE LET pdf_buffer == create_pdf(body) IN
         IF pdf_buffer.exc # "none" THEN Unhandled(pdf_buffer.exc)
         ELSE [status |-> 200, mimetype |-> "application/pdf",
               body |-> [t |-> "pdf", v |-> pdf_buffer.val]]

(***************************************************************************)
(* The state machine                                                       *)
(***************************************************************************)
Init ==
    /\ API_KEY \in KeyValues
    /\ pc = "idle"
    /\ route = "none"
    /\ data = JNull
    /\ calls = 0
    /\ outcome = NoOutcome
    /\ plan = NoPlan
    /\ response = NoResponse

\* POST /generate arrives: the handler runs until it returns early or
\* generate_ai_plan blocks in requests.post
generate ==
    /\ pc = "idle"
    /\ \E body \in GenerateBodies :
         LET early == Validate(body) IN
         /\ route' = "/generate"
         /\ data' = body
         /\ IF early.status # 0
            THEN /\ pc' = "done"
                 /\ response' = early
                 /\ UNCHANGED <<calls, plan>>
            ELSE IF ~Truthy(API_KEY)
            THEN /\ pc' = "done"
                 /\ plan' = Ret(JNull)
                 /\ response' = PlanResponse(Ret(JNull))
                 /\ UNCHANGED calls
            ELSE /\ pc' = "awaiting"
                 /\ calls' = calls + 1
                 /\ UNCHANGED <<plan, response>>
    /\ UNCHANGED <<API_KEY, outcome>>

\* a failed attempt is tried again, up to three calls
generate_resume_retry ==
    /\ pc = "awaiting"
    /\ \E o \in UpstreamOutcomes :
         /\ outcome' = o
         /\ IF o.kind \in FailureKinds /\ calls < 3
            THEN /\ calls' = calls + 1
                 /\ pc' = "awaiting"
                 /\ UNCHANGED <<plan, response>>
            ELSE /\ plan' = generate_ai_plan(o)
                 /\ response' = PlanResponse(generate_ai_plan(o))
                 /\ pc' = "done"
                 /\ UNCHANGED calls
    /\ UNCHANGED <<API_KEY, route, data>>

\* requests.post comes back (or fails): the rest of generate_ai_plan and of
\* generate runs to the response
generate_resume ==
    /\ pc = "awaiting"
    /\ \E o \in UpstreamOutcomes :
         /\ outcome' = o
         /\ plan' = generate_ai_plan(o)
         /\ response' = PlanResponse(generate_ai_plan(o))
    /\ pc' = "done"
    /\ UNCHANGED <<API_KEY, route, data, calls>>

\* POST /download_pdf arrives: the handler runs to the response
download_pdf ==
    /\ pc = "idle"
    /\ \E body \in RenderBodies :
         /\ data' = body
         /\ response' = RenderResponse(body)
    /\ route' = "/download_pdf"
    /\ pc' = "done"
    /\ UNCHANGED <<API_KEY, calls, outcome, plan>>

Next == generate \/ generate_resume \/ download_pdf

Spec == Init /\ [][Next]_vars

TypeOK ==
    /\ API_KEY \in KeyValues
    /\ pc \in {"idle", "awaiting", "done"}
    /\ route \in {"none", "/generate", "/download_pdf"}
    /\ calls \in 0..1
    /\ response.status \in {0, 200, 400, 500}

(***************************************************************************)
(* Vocabulary of the properties                                            *)
(***************************************************************************)
IsObject(x) == x.t = "obj"

HasWeeks(x) == IsObject(x) /\ "weekly_plan" \in DOMAIN x.v /\ x.v["weekly_plan"].t = "arr"

WeeksOf(x) == x.v["weekly_plan"].v

\* every entry carries exactly week, topic, details and resources
WellFormedPlan(x) ==
    /\ HasWeeks(x)
    /\ \A i \in 1..Len(WeeksOf(x)) :
         IsObject(WeeksOf(x)[i]) /\ DOMAIN WeeksOf(x)[i].v = EntryKeys

\* some entry lacks one of the four keys
LacksKey(x) ==
    /\ HasWeeks(x)
    /\ \E i \in 1..Len(WeeksOf(x)) :
         IsObject(WeeksOf(x)[i]) /\ DOMAIN WeeksOf(x)[i].v # EntryKeys

GenerateDone == route = "/generate" /\ pc = "done"

RenderDone == route = "/download_pdf" /\ pc = "done"

\* field k of the object x is missing or empty
FieldMissing(x, k) == k \notin DOMAIN x.v \/ ~Truthy(x.v[k])

SomeFieldMissing(x) == IsObject(x) /\ \E k \in RequiredFields : FieldMissing(x, k)

ValidInput == IsObject(data) /\ \A k \in RequiredFields : ~FieldMissing(data, k)

\* the upstream attempt failed: transport, status, or a reply from which no
\* plan can be read
Failed(o) == o.kind \in FailureKinds \/ (o.kind = "ok" /\ TryBlock(o).exc # "none")

IsPdf(r) == r.status = 200 /\ r.mimetype = "application/pdf" /\ r.body.t = "pdf"

(***************************************************************************)
(* C1                                                                      *)
(***************************************************************************)
\* C1: a Generate request with all four fields non-empty ends either in a 200
\* whose plan entries each have exactly week, topic, details, resources, or
\* in a 500; never in a 200 with a malformed plan.
C1_PlanOr500 ==
    (GenerateDone /\ ValidInput) =>
        \/ response.status = 500
        \/ response.status = 200 /\ WellFormedPlan(response.body)

(***************************************************************************)
(* C2                                                                      *)
(***************************************************************************)
\* C2 as stated: a Generate request whose body lacks one of the four required
\* fields, or holds it empty, ends in 400 in every server configuration.
C2_Missing400Always ==
    (GenerateDone /\ SomeFieldMissing(data)) => response.status = 400

\* C2 amended: when the credential is configured, a Generate request whose
\* JSON object body lacks one of the four required fields, or holds it
\* empty, ends in 400 (and never reaches the upstream call).
C2_Missing400WithKey ==
    (route = "/generate" /\ Truthy(API_KEY) /\ SomeFieldMissing(data)) =>
        pc = "done" /\ response.status = 400 /\ calls = 0

C2_Witness ==
    /\ GenerateDone /\ Truthy(API_KEY) /\ IsObject(data)
    /\ Cardinality({k \in RequiredFields : FieldMissing(data, k)}) = 1
    /\ response = ErrorResponse(400, "Missing required fields")

(***************************************************************************)
(* C3                                                                      *)
(***************************************************************************)
\* C3: generate_ai_plan never raises; on every failure of the upstream call
\* it returns None and Generate answers 500 with the generic error message.
C3_NeverRaises ==
    GenerateDone =>
        /\ plan.exc \in {"none", "pending"}
        /\ Failed(outcome) =>
             plan = Ret(JNull) /\ response = ErrorResponse(500, GenericFailure)

(***************************************************************************)
(* C4                                                                      *)
(***************************************************************************)
\* C4: every plan that Generate returns with 200, posted unmodified to
\* Render, yields a non-empty application/pdf stream.
C4_RoundTrip ==
    (GenerateDone /\ response.status = 200) =>
        /\ IsPdf(RenderResponse(response.body))
        /\ Len(RenderResponse(response.body).body.v) > 0

(***************************************************************************)
(* C5                                                                      *)
(***************************************************************************)
\* C5: Generate returns the Plan Client's output with 200 if and only if it
\* is non-null and holds weekly_plan with an array value; every other output
\* yields 500.
C5_UsableIffArray ==
    (GenerateDone /\ plan.exc = "none") =>
        /\ (response.status = 200 /\ response.body = plan.val) <=> HasWeeks(plan.val)
        /\ ~HasWeeks(plan.val) => response.status = 500

(***************************************************************************)
(* C6                                                                      *)
(***************************************************************************)
\* C6: a Generate request makes at most one outbound call; when the call
\* comes back the request ends in that very step without another call, and
\* a failed attempt ends in 500.
C6_SingleCall ==
    /\ [](calls <= 1)
    /\ [][pc = "awaiting" =>
            /\ pc' = "done"
            /\ calls' = calls
            /\ Failed(outcome') => response'.status = 500]_vars

C6_Witness ==
    /\ GenerateDone /\ calls = 1
    /\ outcome.kind = "Timeout"
    /\ response = ErrorResponse(500, GenericFailure)

(***************************************************************************)
(* C7                                                                      *)
(***************************************************************************)
\* C7: with the credential absent, every Generate request ends in 500 and
\* makes no outbound call, whatever its body.
C7_NoKey500 ==
    (route = "/generate" /\ ~Truthy(API_KEY)) =>
        pc = "done" /\ response.status = 500 /\ calls = 0 /\ outcome = NoOutcome

C7_Witness ==
    /\ GenerateDone /\ API_KEY = JNull /\ ValidInput
    /\ response.status = 500 /\ calls = 0

(***************************************************************************)
(* C8                                                                      *)
(***************************************************************************)
\* C8: when an entry of weekly_plan, at any position, lacks one of week,
\* topic, details, resources, Render fails with a KeyError: no document is
\* returned, not even for the entries before it.
C8_MissingKeyAborts ==
    (RenderDone /\ LacksKey(data)) => response = Unhandled("KeyError")

C8_Witness ==
    /\ RenderDone /\ HasWeeks(data) /\ Len(WeeksOf(data)) = 2
    /\ DOMAIN WeeksOf(data)[1].v = EntryKeys
    /\ DOMAIN WeeksOf(data)[2].v = EntryKeys \ {"resources"}
    /\ response = Unhandled("KeyError")

(***************************************************************************)
(* C9                                                                      *)
(***************************************************************************)
\* C9: Render on a body whose weekly_plan is an empty array, or on a
\* non-empty object without weekly_plan, answers 200 with a document that
\* holds the title and the intro paragraph and nothing else.
C9_EmptyPlanRenders ==
    (RenderDone /\ IsObject(data) /\ Truthy(data)
       /\ ("weekly_plan" \notin DOMAIN data.v \/ data.v["weekly_plan"] = JArr(<<>>))) =>
        /\ IsPdf(response)
        /\ LET story == response.body.v
           IN /\ story[1] = Paragraph("Your Personalized Career Compass Plan", "h1")
              /\ \E i \in 2..Len(story) :
                    /\ story[i].flowable = "Paragraph" /\ story[i].style = "BodyText"
                    /\ \A j \in 2..Len(story) : j # i => story[j].flowable = "Spacer"

C9_Witness ==
    /\ RenderDone /\ data = JObj([weekly_plan |-> JArr(<<>>)])
    /\ IsPdf(response) /\ Len(response.body.v) = 4

(***************************************************************************)
(* C10                                                                     *)
(***************************************************************************)
\* the four flowables of week entry e, stated from the layout
ExpectedHeading(e) == Paragraph("<b>" \o e.v["week"].v \o ": " \o e.v["topic"].v \o "</b>", "h3")

BulletTexts(cell) == [j \in 1..Len(cell) |-> cell[j].text]

ExpectedBullets(list) == [j \in 1..Len(list.v) |-> "* " \o list.v[j].v]

\* C10: for a well-formed plan of n entries the document is the title and
\* the intro, then n blocks in the order of weekly_plan: heading from week
\* and topic, spacer, one two-column table with the entry's details and
\* resources bulleted in order, spacer.
C10_BlocksInOrder ==
    (RenderDone /\ WellFormedPlan(data)) =>
        /\ IsPdf(response)
        /\ LET story == response.body.v
               n == Len(WeeksOf(data))
           IN /\ Len(story) = 4 + 4 * n
              /\ story[1] = Paragraph("Your Personalized Career Compass Plan", "h1")
              /\ story[3].flowable = "Paragraph" /\ story[3].style = "BodyText"
              /\ \A i \in 1..n :
                   LET e == WeeksOf(data)[i]
                       at == 4 * i
                   IN /\ story[at + 1] = ExpectedHeading(e)
                      /\ story[at + 2] = Spacer(12)
                      /\ story[at + 3].flowable = "Table"
                      /\ Len(story[at + 3].row) = 2
                      /\ BulletTexts(story[at + 3].row[1]) = ExpectedBullets(e.v["details"])
                      /\ BulletTexts(story[at + 3].row[2]) = ExpectedBullets(e.v["resources"])
                      /\ story[at + 4] = Spacer(24)

C10_Witness ==
    /\ RenderDone /\ WellFormedPlan(data) /\ Len(WeeksOf(data)) = 2
    /\ WeeksOf(data)[1].v["week"] = JStr("Week 2")
    /\ WeeksOf(data)[2].v["week"] = JStr("Week 1")
    /\ WeeksOf(data)[2].v["resources"] = JArr(<<JStr("r")>>)
    /\ IsPdf(response) /\ Len(response.body.v) = 12

====
